---------------------------- MODULE Spec2Model ----------------------------
(* Stonehenge (stonehenge.py) and the minimax strategies (strategy.py).    *)
(*                                                                         *)
(* A ley-line is the Python list [status, cells]; it is modelled as the    *)
(* record [status, cells].  The three dictionaries of a board map the line *)
(* numbers 0..length to ley-lines.  Python lists and dictionaries are      *)
(* objects: a StonehengeState holds references to its ley-lines, so the    *)
(* board of a state object maps line numbers to addresses of the heap.     *)
EXTENDS Integers, Sequences, FiniteSets, TLC

VARIABLES
    length,                 \* StonehengeGame.length
    current_state,          \* StonehengeGame.current_state, as a value
    heap,                   \* the ley-line objects, by address
    states,                 \* the state objects of the game played, oldest first
    pc,                     \* where the strategy called on the game stands
    old_state,              \* old_state of minimax_recursive / minimax_iterative
    scores_possible_moves,  \* scores_possible_moves of minimax_recursive
    process,                \* process._contents: the stack of minimax_iterative
    tree,                   \* the Tree objects minimax_iterative made, by number
    returned,               \* the move the strategy returned
    pops,                   \* how often process.remove() returned each Tree
    outcome                 \* what the last call of rough_outcome returned

vars == <<length, current_state, heap, states, pc, old_state,
          scores_possible_moves, process, tree, returned, pops, outcome>>

search_vars == <<pc, old_state, scores_possible_moves, process, tree, returned,
                 pops, outcome>>

--------------------------------------------------------------------------
(* Inputs.                                                                 *)

\* side lengths typed at the prompt of StonehengeGame.__init__
Lengths == {1, 2}

letters == <<"A", "B", "C", "D", "E", "F", "G", "H", "I", "J", "K", "L", "M",
             "N", "O", "P", "Q", "R", "S", "T", "U", "V", "W", "X", "Y", "Z">>

Kinds == <<"rows", "left", "right">>

--------------------------------------------------------------------------
(* StonehengeGame.__init__: the three dictionaries of ley-lines.           *)

\* cells of one row: num_cells letters starting after index_letter
RowCells(index_letter, num_cells) ==
    [m \in 1..num_cells |-> letters[index_letter + m]]

RECURSIVE RowsLoop(_, _, _, _, _)
\* the loop over i in range(length + 1) that fills self.rows
RowsLoop(n, i, index_letter, num_cells, rows) ==
    IF i > n THEN rows
    ELSE RowsLoop(n, i + 1, index_letter + num_cells,
                  IF num_cells > n THEN num_cells - 1 ELSE num_cells + 1,
                  [rows EXCEPT ![i] = [status |-> "n",
                                       cells |-> RowCells(index_letter, num_cells)]])

BuildRows(n) ==
    RowsLoop(n, 0, 0, 2, [i \in 0..n |-> [status |-> "n", cells |-> <<>>]])

RECURSIVE LeftCells(_, _, _, _)
\* cells of down_left[i] taken from rows l..length-1 (rows[l][1][i])
LeftCells(rows, n, i, l) ==
    IF l >= n THEN <<>>
    ELSE (IF i < Len(rows[l].cells) THEN <<rows[l].cells[i + 1]>> ELSE <<>>)
         \o LeftCells(rows, n, i, l + 1)

RECURSIVE RightCells(_, _, _, _)
\* cells of down_right[i] taken from rows l..length-1 (rows[l][1][-1 - i])
RightCells(rows, n, i, l) ==
    IF l >= n THEN <<>>
    ELSE (IF -1 - i >= -Len(rows[l].cells)
          THEN <<rows[l].cells[Len(rows[l].cells) - i]>> ELSE <<>>)
         \o RightCells(rows, n, i, l + 1)

\* down_left without the cells of the last row
BuildLeftShort(n) ==
    [i \in 0..n |-> [status |-> "n", cells |-> LeftCells(BuildRows(n), n, i, 0)]]

\* down_left after the cells of the last row were appended, index = 1, 2, ...
BuildLeft(n) ==
    LET rows == BuildRows(n)
        last == rows[n].cells
    IN [i \in 0..n |->
          [status |-> "n",
           cells |-> LeftCells(rows, n, i, 0)
                     \o (IF i >= 1 /\ i <= Len(last) THEN <<last[i]>> ELSE <<>>)]]

\* down_right after the cells of the last row were appended, index = length, ...
BuildRight(n) ==
    LET rows == BuildRows(n)
        last == rows[n].cells
    IN [i \in 0..n |->
          [status |-> "n",
           cells |-> RightCells(rows, n, i, 0)
                     \o (IF n - i + 1 >= 1 /\ n - i + 1 <= Len(last)
                         THEN <<last[n - i + 1]>> ELSE <<>>)]]

\* the board handed to the first StonehengeState
NewBoard(n) ==
    [rows |-> BuildRows(n), left |-> BuildLeft(n), right |-> BuildRight(n)]

\* the state built at the end of StonehengeGame.__init__ (as a value)
NewState(is_p1_turn, n) ==
    [p1_turn |-> is_p1_turn, cur_board |-> NewBoard(n),
     p1_score |-> 0, p2_score |-> 0, length |-> n]

--------------------------------------------------------------------------
(* Objects: the heap of ley-lines, and states as values.                   *)

\* number of ley-lines of a board of side length n
NumLines(n) == 3 * (n + 1)

\* "for lines in board: for line in board[lines]": the j-th ley-line visited
LineKind(n, j) == Kinds[((j - 1) \div (n + 1)) + 1]
LineIndex(n, j) == (j - 1) % (n + 1)

\* the state object as a value: every reference replaced by the ley-line it
\* refers to in heap h
StateAt(h, obj) ==
    [obj EXCEPT !.cur_board =
        [k \in {"rows", "left", "right"} |->
            [i \in 0..obj.length |-> h[obj.cur_board[k][i]]]]]

\* a state value laid out as an object of its own on an empty heap
Store(s) ==
    LET n == s.length
    IN [heap |-> [j \in 1..NumLines(n) |->
                     s.cur_board[LineKind(n, j)][LineIndex(n, j)]],
        state |-> [s EXCEPT !.cur_board =
                     [k \in {"rows", "left", "right"} |->
                        [i \in 0..n |->
                           (CHOOSE p \in 1..3 : Kinds[p] = k) * (n + 1) - n + i]]]]

\* self.cur_board.copy(): the new dictionary refers to the same ley-lines
shallow_copy(h, board, n) == [heap |-> h, board |-> board]

\* copy.deepcopy(self.cur_board): every ley-line is copied to a new address
deepcopy(h, board, n) ==
    [heap |-> h \o [j \in 1..NumLines(n) |->
                       h[board[LineKind(n, j)][LineIndex(n, j)]]],
     board |-> [k \in {"rows", "left", "right"} |->
                  [i \in 0..n |->
                     Len(h) + (CHOOSE p \in 1..3 : Kinds[p] = k) * (n + 1) - n + i]]]

--------------------------------------------------------------------------
(* StonehengeState                                                         *)

RECURSIVE count(_, _)
\* list.count
count(cells, x) ==
    IF cells = <<>> THEN 0
    ELSE (IF Head(cells) = x THEN 1 ELSE 0) + count(Tail(cells), x)

\* a capture that counts a ley-line already captured again
captures_again(line, cur_player) ==
    2 * count(line.cells, cur_player) >= Len(line.cells)

\* a capture that needs more than half of the cells
captures_strictly(line, cur_player) ==
    line.status = "n" /\ 2 * count(line.cells, cur_player) > Len(line.cells)

\* a capture whose half is len(states[1]) // 2
captures_floor(line, cur_player) ==
    line.status = "n"
    /\ count(line.cells, cur_player) >= Len(line.cells) \div 2

\* states[0] == 'n' and states[1].count(cur_player) >= len(states[1]) / 2
captures(line, cur_player) ==
    line.status = "n" /\ 2 * count(line.cells, cur_player) >= Len(line.cells)

RECURSIVE move_to_board_loop(_, _, _, _, _)
\* the loop "for cell in range(len(states[1]))" of move_to_board, from cell on
move_to_board_loop(scores, line, move, cur_player, cell) ==
    IF cell > Len(line.cells) THEN [scores |-> scores, states |-> line]
    ELSE IF line.cells[cell] = move
    THEN LET marked == [line EXCEPT !.cells[cell] = cur_player]
             half == captures(marked, cur_player)
         IN IF half /\ cur_player = "2"
            THEN move_to_board_loop(<<scores[1], scores[2] + 1>>,
                                    [marked EXCEPT !.status = "2"],
                                    move, cur_player, cell + 1)
            ELSE IF half
            THEN move_to_board_loop(<<scores[1] + 1, scores[2]>>,
                                    [marked EXCEPT !.status = "1"],
                                    move, cur_player, cell + 1)
            ELSE move_to_board_loop(scores, marked, move, cur_player, cell + 1)
    ELSE move_to_board_loop(scores, line, move, cur_player, cell + 1)

\* move_to_board adding every capture to scores[0]
move_to_board_first_score(player_scores, cur_states, move, cur_player) ==
    LET r == move_to_board_loop(player_scores, cur_states, move, cur_player, 1)
    IN [r EXCEPT !.scores =
           <<player_scores[1] + (r.scores[1] - player_scores[1])
                              + (r.scores[2] - player_scores[2]),
             player_scores[2]>>]

\* move_to_board: the ley-line and the scores as it leaves them
move_to_board(player_scores, cur_states, move, cur_player) ==
    move_to_board_loop(player_scores, cur_states, move, cur_player, 1)

RECURSIVE make_move_loop(_, _, _, _, _, _, _)
\* the nested loops of make_move over the ley-lines of board, from the j-th on
make_move_loop(h, board, scores, move, cur_player, n, j) ==
    IF j > NumLines(n) THEN [heap |-> h, scores |-> scores]
    ELSE LET addr == board[LineKind(n, j)][LineIndex(n, j)]
             r == move_to_board(scores, h[addr], move, cur_player)
         IN make_move_loop([h EXCEPT ![addr] = r.states], board, r.scores,
                           move, cur_player, n, j + 1)

\* make_move that hands the turn back to the player who moved
make_move_keeps_turn(h, self, move) ==
    LET cp == deepcopy(h, self.cur_board, self.length)
        cur_player == IF ~self.p1_turn THEN "2" ELSE "1"
        r == make_move_loop(cp.heap, cp.board, <<self.p1_score, self.p2_score>>,
                            move, cur_player, self.length, 1)
    IN [heap |-> r.heap,
        state |-> [p1_turn |-> (cur_player = "1"), cur_board |-> cp.board,
                   p1_score |-> r.scores[1], p2_score |-> r.scores[2],
                   length |-> self.length]]

\* make_move on the state object self of heap h: the heap it leaves and the
\* new state object
make_move(h, self, move) ==
    LET cp == deepcopy(h, self.cur_board, self.length)
        cur_player == IF ~self.p1_turn THEN "2" ELSE "1"
        r == make_move_loop(cp.heap, cp.board, <<self.p1_score, self.p2_score>>,
                            move, cur_player, self.length, 1)
    IN [heap |-> r.heap,
        state |-> [p1_turn |-> (cur_player = "2"), cur_board |-> cp.board,
                   p1_score |-> r.scores[1], p2_score |-> r.scores[2],
                   length |-> self.length]]

\* s.make_move(move) as a value
Successor(s, move) ==
    LET st == Store(s)
        r == make_move(st.heap, st.state, move)
    IN StateAt(r.heap, r.state)

\* "cell != '1' or cell != '2'": every cell passes
unclaimed_or(cells) == cells

RECURSIVE unclaimed(_)
\* the cells of a row that are neither '1' nor '2', in order
unclaimed(cells) ==
    IF cells = <<>> THEN <<>>
    ELSE (IF Head(cells) # "1" /\ Head(cells) # "2" THEN <<Head(cells)>> ELSE <<>>)
         \o unclaimed(Tail(cells))

RECURSIVE rows_unclaimed(_, _)
\* the loop over self.cur_board['rows'] of get_possible_moves, from row index on
rows_unclaimed(s, index) ==
    IF index > s.length THEN <<>>
    ELSE unclaimed(s.cur_board.rows[index].cells) \o rows_unclaimed(s, index + 1)

get_possible_moves(s) ==
    IF 2 * s.p1_score >= 3 * (s.length + 1) \/ 2 * s.p2_score >= 3 * (s.length + 1)
    THEN <<>>
    ELSE rows_unclaimed(s, 0)

get_current_player_name(s) == IF s.p1_turn THEN "p1" ELSE "p2"

\* GameState.WIN, GameState.LOSE and GameState.DRAW
WIN == 1
LOSE == -1
DRAW == 0

\* the score test with half_ley_lines = 3 * (self.length + 1) // 2
at_half_floor(self, state) ==
    state.p1_score >= (3 * (self.length + 1)) \div 2
    \/ state.p2_score >= (3 * (self.length + 1)) \div 2

\* p1_score >= half_ley_lines or p2_score >= half_ley_lines, where
\* half_ley_lines = 3 * (self.length + 1) / 2 is a real number
at_half_ley_lines(self, state) ==
    2 * state.p1_score >= 3 * (self.length + 1)
    \/ 2 * state.p2_score >= 3 * (self.length + 1)

\* any([...]) in the place of all([...]): some reply stays below half_ley_lines
some_reply_below(self, state) ==
    \E k \in 1..Len(get_possible_moves(state)) :
        ~at_half_ley_lines(self, Successor(state, get_possible_moves(state)[k]))

\* all([...]) of rough_outcome: every reply x to state leaves both scores
\* below half_ley_lines
all_replies_below(self, state) ==
    \A k \in 1..Len(get_possible_moves(state)) :
        ~at_half_ley_lines(self, Successor(state, get_possible_moves(state)[k]))

RECURSIVE rough_outcome_loop(_, _, _, _)
\* the loop "for move in self.get_possible_moves()" of rough_outcome from the
\* k-th move on, and the returns after it
rough_outcome_loop(self, moves, k, other_win) ==
    IF k > Len(moves) THEN (IF other_win THEN LOSE ELSE DRAW)
    ELSE LET state == Successor(self, moves[k])
         IN IF at_half_ley_lines(self, state) THEN WIN
            ELSE IF all_replies_below(self, state)
            THEN rough_outcome_loop(self, moves, k + 1, FALSE)
            ELSE rough_outcome_loop(self, moves, k + 1, other_win)

rough_outcome(self) ==
    IF get_possible_moves(self) = <<>> THEN LOSE
    ELSE rough_outcome_loop(self, get_possible_moves(self), 1, TRUE)

--------------------------------------------------------------------------
(* StonehengeGame                                                          *)

\* is_over: half_ley_lines = 3 * (length + 1) / 2 is a real number
is_over(state) ==
    2 * state.p1_score >= 3 * (length + 1)
    \/ 2 * state.p2_score >= 3 * (length + 1)

\* is_winner naming the player to move
is_winner_to_move(cur, player) ==
    IF 2 * cur.p1_score >= 3 * (length + 1) \/ 2 * cur.p2_score >= 3 * (length + 1)
    THEN (IF cur.p1_turn THEN "p1" ELSE "p2") = player
    ELSE FALSE

\* is_winner of a game whose current_state is cur
is_winner(cur, player) ==
    IF is_over(cur) THEN get_current_player_name(cur) # player ELSE FALSE

Range(seq) == {seq[i] : i \in DOMAIN seq}

--------------------------------------------------------------------------
(* A game played on state objects: every state ever made is kept.          *)

Init ==
    /\ length \in Lengths
    /\ \E is_p1_turn \in BOOLEAN :
          LET st == Store(NewState(is_p1_turn, length))
          IN /\ heap = st.heap
             /\ states = <<st.state>>
             /\ current_state = NewState(is_p1_turn, length)
    /\ pc = "idle"
    /\ old_state = <<>>
    /\ scores_possible_moves = <<>>
    /\ process = <<>>
    /\ tree = <<>>
    /\ returned = ""
    /\ pops = <<>>
    /\ outcome = <<>>

\* the newest state of the game
Last == states[Len(states)]

\* game.current_state = game.current_state.make_move(move), move legal
MakeMove(move) ==
    /\ move \in Range(get_possible_moves(StateAt(heap, Last)))
    /\ LET r == make_move(heap, Last, move)
       IN /\ heap' = r.heap
          /\ states' = Append(states, r.state)
          /\ current_state' = StateAt(r.heap, r.state)
    /\ UNCHANGED <<length, search_vars>>

\* make_move(move) on the state before the newest one, the way a strategy
\* tries the moves of a state: the state it returns is dropped, and so are
\* the ley-lines only that state refers to
Explore(move) ==
    /\ Len(states) >= 2
    /\ move \in Range(get_possible_moves(StateAt(heap, states[Len(states) - 1])))
    /\ heap' = SubSeq(make_move(heap, states[Len(states) - 1], move).heap,
                      1, Len(heap))
    /\ UNCHANGED <<length, current_state, states, search_vars>>

Next ==
    \/ \E move \in Range(letters) : MakeMove(move)
    \/ \E move \in Range(letters) : Explore(move)

Spec == Init /\ [][Next]_vars

--------------------------------------------------------------------------
(* The boards of every side length the 26 letters allow, and the first     *)
(* moves on them.                                                          *)

\* side lengths whose cells the 26 letters can name
BoardLengths == 1..5

\* number of moves followed on these boards
MaxBoardMoves == 1

BoardInit ==
    /\ length \in BoardLengths
    /\ \E is_p1_turn \in BOOLEAN :
          LET st == Store(NewState(is_p1_turn, length))
          IN /\ heap = st.heap
             /\ states = <<st.state>>
             /\ current_state = NewState(is_p1_turn, length)
    /\ pc = "idle"
    /\ old_state = <<>>
    /\ scores_possible_moves = <<>>
    /\ process = <<>>
    /\ tree = <<>>
    /\ returned = ""
    /\ pops = <<>>
    /\ outcome = <<>>

\* one of the first moves of a game
FirstMove(move) ==
    /\ Len(states) <= MaxBoardMoves
    /\ MakeMove(move)

BoardNext == \E move \in Range(letters) : FirstMove(move)

BoardSpec == BoardInit /\ [][BoardNext]_vars

--------------------------------------------------------------------------
(* make_move called with any label, the way a caller that does not ask     *)
(* for the possible moves first would call it.                             *)

\* number of calls of make_move followed
MaxCalls == 2

\* the labels a caller may pass: the letters, and the tags of claimed cells
AnyLabel == Range(letters) \cup {"1", "2"}

\* state.make_move(label) for any label: make_move has no test of the label
\* and no raise statement, it returns the new state
Call(label) ==
    /\ Len(states) <= MaxCalls
    /\ LET r == make_move(heap, Last, label)
       IN /\ heap' = r.heap
          /\ states' = Append(states, r.state)
          /\ current_state' = StateAt(r.heap, r.state)
    /\ UNCHANGED <<length, search_vars>>

CallNext == \E label \in AnyLabel : Call(label)

CallSpec == Init /\ [][CallNext]_vars

--------------------------------------------------------------------------
(* strategy.py: minimax_recursive and minimax_iterative.                   *)

\* the strategies are called on states with at most this many possible moves
MaxSearchMoves == 3

Max(S) == CHOOSE x \in S : \A y \in S : y <= x

\* the last position holding value
index_last(seq, value) ==
    CHOOSE i \in 1..Len(seq) :
        seq[i] = value /\ \A j \in (i + 1)..Len(seq) : seq[j] # value

\* list.index(value): the first position holding value
index(seq, value) ==
    CHOOSE i \in 1..Len(seq) : seq[i] = value /\ \A j \in 1..(i - 1) : seq[j] # value

\* scores_possible_moves.index(min(scores_possible_moves))
index_of_min(scores) ==
    index(scores, CHOOSE x \in Range(scores) : \A y \in Range(scores) : x <= y)

\* scores_possible_moves.index(max(scores_possible_moves))
index_of_max(scores) == index(scores, Max(Range(scores)))

\* the score of a state that is over as player 1 sees it, whoever is to move
over_score_for_p1(state) ==
    IF is_winner(state, "p1") THEN 1
    ELSE IF is_winner(state, "p2") THEN -1 ELSE 0

\* the value max_score returns when game.is_over(state); game.current_state
\* is state
over_score(state) ==
    IF state.p1_turn
    THEN (IF is_winner(state, "p1") THEN 1
          ELSE IF is_winner(state, "p2") THEN -1 ELSE 0)
    ELSE (IF is_winner(state, "p2") THEN 1
          ELSE IF is_winner(state, "p1") THEN -1 ELSE 0)

RECURSIVE max_score_as_is(_)
\* max_score without the "-1 *" in front of the recursive call
max_score_as_is(state) ==
    IF is_over(state)
    THEN [score |-> over_score(state), current_state |-> state]
    ELSE LET moves == get_possible_moves(state)
             calls == [k \in 1..Len(moves) |->
                          max_score_as_is(Successor(state, moves[k]))]
         IN [score |-> Max({calls[k].score : k \in 1..Len(moves)}),
             current_state |-> calls[Len(moves)].current_state]

RECURSIVE max_score(_)
\* max_score(game, state): the score it returns and the state it leaves in
\* game.current_state
max_score(state) ==
    IF is_over(state)
    THEN [score |-> over_score(state), current_state |-> state]
    ELSE LET moves == get_possible_moves(state)
             calls == [k \in 1..Len(moves) |->
                          max_score(Successor(state, moves[k]))]
         IN [score |-> Max({-1 * calls[k].score : k \in 1..Len(moves)}),
             current_state |-> calls[Len(moves)].current_state]

\* the list comprehension of minimax_recursive: the scores, and the state the
\* calls of max_score leave in game.current_state
recursive_scores(state) ==
    LET moves == get_possible_moves(state)
        calls == [k \in 1..Len(moves) |-> max_score(Successor(state, moves[k]))]
    IN [scores |-> [k \in 1..Len(moves) |-> -1 * calls[k].score],
        current_state |-> calls[Len(moves)].current_state]

\* the move minimax_recursive returns for the game at state
minimax_recursive(state) ==
    get_possible_moves(state)[index_of_max(recursive_scores(state).scores)]

\* a strategy is called on a game that is not over
Callable ==
    /\ pc = "idle"
    /\ ~is_over(current_state)
    /\ Len(get_possible_moves(current_state)) <= MaxSearchMoves

\* minimax_recursive up to the search of the moves
RecursiveScores ==
    /\ Callable
    /\ old_state' = current_state
    /\ scores_possible_moves' = recursive_scores(current_state).scores
    /\ current_state' = recursive_scores(current_state).current_state
    /\ pc' = "recursive"
    /\ UNCHANGED <<length, heap, states, process, tree, returned, pops, outcome>>

\* minimax_recursive returning without game.current_state = old_state
RecursiveReturnAsIs ==
    /\ pc = "recursive"
    /\ returned' = get_possible_moves(old_state)[index_of_max(scores_possible_moves)]
    /\ pc' = "recursive returned"
    /\ UNCHANGED <<length, heap, states, current_state, old_state,
                   scores_possible_moves, process, tree, pops, outcome>>

\* the end of minimax_recursive: index, game.current_state = old_state, return
RecursiveReturn ==
    /\ pc = "recursive"
    /\ current_state' = old_state
    /\ returned' = get_possible_moves(old_state)[index_of_max(scores_possible_moves)]
    /\ pc' = "recursive returned"
    /\ UNCHANGED <<length, heap, states, old_state, scores_possible_moves,
                   process, tree, pops, outcome>>

\* Tree(value): children [] and score None; a score is <<>> for None and
\* <<v>> for the number v
Tree(value) == [value |-> value, children |-> <<>>, score |-> <<>>]

\* the score minimax_iterative gives a tree whose state is over;
\* game.current_state is that state
tree_over_score(cur) ==
    IF ~(is_winner(cur, "p1") \/ is_winner(cur, "p2")) THEN 0
    ELSE IF cur.p1_turn /\ is_winner(cur, "p1") THEN 1
    ELSE IF cur.p1_turn /\ is_winner(cur, "p2") THEN -1
    ELSE IF (~cur.p1_turn) /\ is_winner(cur, "p2") THEN 1
    ELSE -1

\* max of the children's scores as they are, not negated
children_score_as_is(tr, children) ==
    Max({tr[children[k]].score[1] : k \in 1..Len(children)} \cup {-1})

\* max([(-1 * x.score) for x in tree.children] + [-1])
children_score(tr, children) ==
    Max({-1 * tr[children[k]].score[1] : k \in 1..Len(children)} \cup {-1})

\* the start of minimax_iterative: the root tree goes on the stack
IterativeStart ==
    /\ Callable
    /\ old_state' = current_state
    /\ tree' = <<Tree(current_state)>>
    /\ process' = <<1>>
    /\ pops' = <<0>>
    /\ pc' = "iterative"
    /\ UNCHANGED <<length, heap, states, current_state, scores_possible_moves,
                   returned, outcome>>

\* process.remove()
top == process[Len(process)]
rest == SubSeq(process, 1, Len(process) - 1)

\* the children put on the stack twice
added_twice(contents, t, children) == contents \o <<t>> \o children \o children

\* the tree put on the stack after its children, not before them
added_children_first(contents, t, children) == contents \o children \o <<t>>

\* process.add(tree), then process.add(child) for each child, on a stack
\* whose _contents is contents
added(contents, t, children) == contents \o <<t>> \o children

\* a child of the tree numbered t has the score None, which -1 * x.score
\* cannot take: TypeError
unset_child(tr, t) ==
    \E k \in 1..Len(tr[t].children) : tr[tr[t].children[k]].score = <<>>

\* one turn of the loop: the state of the tree removed is over
IterativeOver ==
    /\ pc = "iterative"
    /\ process # <<>>
    /\ is_over(tree[top].value)
    /\ current_state' = tree[top].value
    /\ tree' = [tree EXCEPT ![top].score = <<tree_over_score(tree[top].value)>>]
    /\ process' = rest
    /\ pops' = [pops EXCEPT ![top] = @ + 1]
    /\ UNCHANGED <<length, heap, states, pc, old_state, scores_possible_moves,
                   returned, outcome>>

\* one turn of the loop: the tree removed has no children yet
IterativeExpand ==
    /\ pc = "iterative"
    /\ process # <<>>
    /\ ~is_over(tree[top].value)
    /\ tree[top].children = <<>>
    /\ current_state' = tree[top].value
    /\ LET moves == get_possible_moves(tree[top].value)
           children == [k \in 1..Len(moves) |-> Len(tree) + k]
       IN /\ tree' = [tree EXCEPT ![top].children = children]
                     \o [k \in 1..Len(moves) |->
                            Tree(Successor(tree[top].value, moves[k]))]
          /\ process' = added(rest, top, children)
          /\ pops' = [pops EXCEPT ![top] = @ + 1] \o [k \in 1..Len(moves) |-> 0]
    /\ UNCHANGED <<length, heap, states, pc, old_state, scores_possible_moves,
                   returned, outcome>>

\* one turn of the loop: the tree removed has children
IterativeScore ==
    /\ pc = "iterative"
    /\ process # <<>>
    /\ ~is_over(tree[top].value)
    /\ tree[top].children # <<>>
    /\ current_state' = tree[top].value
    /\ IF unset_child(tree, top)
       THEN pc' = "TypeError" /\ tree' = tree
       ELSE /\ pc' = pc
            /\ tree' = [tree EXCEPT
                   ![top].score = <<children_score(tree, tree[top].children)>>]
    /\ process' = rest
    /\ pops' = [pops EXCEPT ![top] = @ + 1]
    /\ UNCHANGED <<length, heap, states, old_state, scores_possible_moves,
                   returned, outcome>>

\* after the loop: index, game.current_state = old_state, return
IterativeReturn ==
    /\ pc = "iterative"
    /\ process = <<>>
    /\ IF unset_child(tree, 1)
       THEN pc' = "TypeError" /\ UNCHANGED <<returned, current_state>>
       ELSE /\ LET scores == [k \in 1..Len(tree[1].children) |->
                                 -1 * tree[tree[1].children[k]].score[1]]
               IN returned' = get_possible_moves(old_state)[index_of_max(scores)]
            /\ current_state' = old_state
            /\ pc' = "iterative returned"
    /\ UNCHANGED <<length, heap, states, old_state, scores_possible_moves,
                   process, tree, pops, outcome>>

\* the game goes on while no strategy runs:
\* game.current_state = game.current_state.make_move(move), move legal
Play(move) ==
    /\ pc = "idle"
    /\ move \in Range(get_possible_moves(current_state))
    /\ current_state' = Successor(current_state, move)
    /\ UNCHANGED <<length, heap, states, search_vars>>

SearchNext ==
    \/ \E move \in Range(letters) : Play(move)
    \/ RecursiveScores
    \/ RecursiveReturn
    \/ IterativeStart
    \/ IterativeOver
    \/ IterativeExpand
    \/ IterativeScore
    \/ IterativeReturn

SearchSpec == Init /\ [][SearchNext]_vars

\* "tree = process.remove()" as the counts of removals show it: the tree on
\* top is removed once more, and the trees the turn makes were never removed
Remove ==
    /\ pc = "iterative"
    /\ process # <<>>
    /\ \E n \in 0..Len(letters) :
          pops' = [pops EXCEPT ![top] = @ + 1] \o [k \in 1..n |-> 0]

\* a call of minimax_iterative runs on: nothing else runs while it does, so
\* while the stack is not empty the loop takes its next turn
SearchFairSpec == SearchSpec /\ WF_pops(Remove)

--------------------------------------------------------------------------
(* rough_outcome called on the states of a game, the way                   *)
(* rough_outcome_strategy calls it on the states it looks at.              *)

\* state.rough_outcome() on the current state of the game
RoughOutcome ==
    /\ pc = "idle"
    /\ outcome' = <<rough_outcome(current_state)>>
    /\ UNCHANGED <<length, current_state, heap, states, pc, old_state,
                   scores_possible_moves, process, tree, returned, pops>>

\* the game goes on; the value of the last call belongs to the state left
OutcomePlay(move) ==
    /\ pc = "idle"
    /\ move \in Range(get_possible_moves(current_state))
    /\ current_state' = Successor(current_state, move)
    /\ outcome' = <<>>
    /\ UNCHANGED <<length, heap, states, pc, old_state, scores_possible_moves,
                   process, tree, returned, pops>>

OutcomeNext ==
    \/ \E move \in Range(letters) : OutcomePlay(move)
    \/ RoughOutcome

OutcomeSpec == Init /\ [][OutcomeNext]_vars

--------------------------------------------------------------------------
(* Properties of the board model.                                          *)

AllLines == {"rows", "left", "right"} \X (0..length)

LineOf(s, l) == s.cur_board[l[1]][l[2]]

\* number of cells of a ley-line that carry tag
Owned(line, tag) == Cardinality({j \in 1..Len(line.cells) : line.cells[j] = tag})

\* the tag the player to move in s writes
Mover(s) == IF s.p1_turn THEN "1" ELSE "2"

ScoreOf(s, tag) == IF tag = "1" THEN s.p1_score ELSE s.p2_score

\* a score of at least 3 * (length + 1) / 2
Reached(score) == 2 * score >= 3 * (length + 1)

AllClaimed(s) ==
    \A l \in AllLines : \A j \in 1..Len(LineOf(s, l).cells) :
        LineOf(s, l).cells[j] \in {"1", "2"}

\* C4: a move leaves every state made before it as it was: its board (cells
\* and capture status of every ley-line), its scores and its turn.
C4_EarlierStatesUnchanged ==
    [][\A i \in 1..Len(states) :
          /\ states'[i] = states[i]
          /\ StateAt(heap', states'[i]) = StateAt(heap, states[i])]_vars

\* C4 witness: three states deep, a ley-line still uncaptured in the first
\* state is captured in the newest one.
C4_Witness ==
    /\ Len(states) >= 3
    /\ \E l \in AllLines :
          /\ LineOf(StateAt(heap, states[1]), l).status = "n"
          /\ LineOf(StateAt(heap, states[2]), l).status = "n"
          /\ LineOf(StateAt(heap, Last), l).status # "n"

\* the ley-lines a move on cell m by the player to move in s captures
Gained(s, t, m) ==
    {l \in AllLines :
        /\ m \in Range(LineOf(s, l).cells)
        /\ LineOf(s, l).status = "n"
        /\ 2 * Owned(LineOf(t, l), Mover(s)) >= Len(LineOf(t, l).cells)}

\* C5: a legal move m marks the cell as the mover's in every ley-line that
\* contains it, captures exactly the uncaptured ley-lines of m in which the
\* mover now owns at least half of the cells, adds one to the mover's score
\* for each, and leaves the other ley-lines alone.
C5_MoveMarksAndCaptures ==
    \A m \in Range(get_possible_moves(current_state)) :
        LET s == current_state
            t == Successor(s, m)
        IN /\ \A l \in AllLines :
                 IF m \in Range(LineOf(s, l).cells)
                 THEN /\ LineOf(t, l).cells =
                            [j \in 1..Len(LineOf(s, l).cells) |->
                                IF LineOf(s, l).cells[j] = m THEN Mover(s)
                                ELSE LineOf(s, l).cells[j]]
                      /\ LineOf(t, l).status =
                            (IF l \in Gained(s, t, m) THEN Mover(s)
                             ELSE LineOf(s, l).status)
                 ELSE LineOf(t, l) = LineOf(s, l)
           /\ ScoreOf(t, Mover(s)) = ScoreOf(s, Mover(s)) + Cardinality(Gained(s, t, m))

\* C5 witness: one move captures a ley-line, leaves a second ley-line of the
\* cell uncaptured and meets a third already captured.
C5_Witness ==
    \E m \in Range(get_possible_moves(current_state)) :
        LET s == current_state
            t == Successor(s, m)
        IN /\ Gained(s, t, m) # {}
           /\ \E l \in AllLines : /\ m \in Range(LineOf(s, l).cells)
                                  /\ LineOf(s, l).status = "n"
                                  /\ LineOf(t, l).status = "n"
           /\ \E l \in AllLines : /\ m \in Range(LineOf(s, l).cells)
                                  /\ LineOf(s, l).status # "n"

\* C6: a ley-line captured in some state of the game has the same status in
\* every later state.
C6_CaptureIsPermanent ==
    \A i \in 1..Len(states) : \A j \in i..Len(states) : \A l \in AllLines :
        LineOf(StateAt(heap, states[i]), l).status # "n"
        => LineOf(StateAt(heap, states[j]), l).status
           = LineOf(StateAt(heap, states[i]), l).status

\* C6 witness: a ley-line captured by one player in which the other player
\* has since come to own at least half of the cells.
C6_Witness ==
    \E i \in 1..Len(states) : \E l \in AllLines : \E x \in {"1", "2"} :
        /\ LineOf(StateAt(heap, states[i]), l).status = x
        /\ \E y \in {"1", "2"} \ {x} :
              2 * Owned(LineOf(StateAt(heap, Last), l), y)
                 >= Len(LineOf(StateAt(heap, Last), l).cells)

\* C7: the game is over exactly when there is no possible move, and a board
\* with every cell claimed has a score at the threshold.
C7_OverIffNoMoves ==
    /\ is_over(current_state) <=> get_possible_moves(current_state) = <<>>
    /\ ~(/\ AllClaimed(current_state)
         /\ ~Reached(current_state.p1_score)
         /\ ~Reached(current_state.p2_score))

\* C7 witness: a board with every cell claimed.
C7_Witness == AllClaimed(current_state) /\ is_over(current_state)

\* C8: after a legal move the possible moves are those before it without
\* the move, in the same order, or none at all when the game is over.
C8_MovesShrink ==
    \A m \in Range(get_possible_moves(current_state)) :
        LET before == get_possible_moves(current_state)
            after == get_possible_moves(Successor(current_state, m))
        IN /\ IF is_over(Successor(current_state, m)) THEN after = <<>>
              ELSE /\ after = SelectSeq(before, LAMBDA x : x # m)
                   /\ Len(after) = Len(before) - 1
           /\ Len(after) < Len(before)

\* C8 witness: a move in the middle of the list that does not end the game,
\* beside a move that ends it with cells left.
C8_Witness ==
    LET before == get_possible_moves(current_state)
    IN /\ \E k \in 2..(Len(before) - 1) :
             ~is_over(Successor(current_state, before[k]))
       /\ \E k \in 1..Len(before) :
             /\ is_over(Successor(current_state, before[k]))
             /\ Len(before) >= 3

\* C9: when the game is over exactly the player who is not to move is the
\* winner; that player's score is at the threshold and the other's is not.
C9_WinnerIsNotToMove ==
    is_over(current_state) =>
        LET s == current_state
            loser == get_current_player_name(s)
            winner == IF loser = "p1" THEN "p2" ELSE "p1"
        IN /\ is_winner(s, winner)
           /\ ~is_winner(s, loser)
           /\ Reached(IF winner = "p1" THEN s.p1_score ELSE s.p2_score)
           /\ ~Reached(IF winner = "p1" THEN s.p2_score ELSE s.p1_score)

\* C9 witness: a finished game that player 2 won while player 1 had captured
\* ley-lines.
C9_Witness ==
    /\ is_over(current_state)
    /\ current_state.p1_turn
    /\ current_state.p1_score > 0

\* C10: each score is the number of ley-lines with that player's status,
\* and with the uncaptured ones they are all 3 * (length + 1) ley-lines.
C10_ScoresCountCaptures ==
    LET s == current_state
        with(x) == Cardinality({l \in AllLines : LineOf(s, l).status = x})
    IN /\ s.p1_score = with("1")
       /\ s.p2_score = with("2")
       /\ s.p1_score + s.p2_score + with("n") = 3 * (length + 1)

\* C10 witness: both players have captured ley-lines and some are left.
C10_Witness ==
    /\ current_state.p1_score >= 2
    /\ current_state.p2_score >= 2
    /\ \E l \in AllLines : LineOf(current_state, l).status = "n"

--------------------------------------------------------------------------
(* Properties of the strategies.                                           *)

\* the labels of the cells of s nobody has claimed
FreeCells(s) ==
    {c \in UNION {Range(s.cur_board.rows[i].cells) : i \in 0..s.length} :
        c \notin {"1", "2"}}

RECURSIVE GameValue(_)
\* the value of s for the player to move in s when both play their best:
\* 1 when that player is first to a score at the threshold, -1 when the
\* other player is, 0 when the cells run out before
GameValue(s) ==
    IF Reached(ScoreOf(s, Mover(s))) THEN 1
    ELSE IF Reached(ScoreOf(s, IF Mover(s) = "1" THEN "2" ELSE "1")) THEN -1
    ELSE IF FreeCells(s) = {} THEN 0
    ELSE Max({-1 * GameValue(Successor(s, m)) : m \in FreeCells(s)})

\* the root's scores_possible_moves of minimax_iterative, after the loop
RootScores ==
    [k \in 1..Len(tree[1].children) |-> -1 * tree[tree[1].children[k]].score[1]]

\* C1: when minimax_iterative returns, its best negated score is the one
\* minimax_recursive finds for the same state, and the move it returns
\* leads to a state of the same game value as the move minimax_recursive
\* returns.
C1_SameBestScore ==
    pc = "iterative returned" =>
        /\ Max(Range(RootScores)) = Max(Range(recursive_scores(old_state).scores))
        /\ -1 * GameValue(Successor(old_state, returned))
           = -1 * GameValue(Successor(old_state, minimax_recursive(old_state)))

\* C1 witness: minimax_iterative returned a move other than the first one
\* from a tree in which a child of the root has children of its own.
C1_Witness ==
    /\ pc = "iterative returned"
    /\ returned # get_possible_moves(old_state)[1]
    /\ \E k \in 1..Len(tree[1].children) : tree[tree[1].children[k]].children # <<>>

\* C2: the move minimax_recursive returns leads to a state whose game value
\* for the opponent is the least any legal move allows; when some move wins
\* by force, the opponent cannot win by force after the move returned.
C2_RecursiveMoveIsOptimal ==
    pc = "recursive returned" =>
        /\ returned \in FreeCells(old_state)
        /\ \A m \in FreeCells(old_state) :
              GameValue(Successor(old_state, returned))
                 <= GameValue(Successor(old_state, m))
        /\ (\E m \in FreeCells(old_state) : GameValue(Successor(old_state, m)) = -1)
              => GameValue(Successor(old_state, returned)) # 1

\* C2 witness: minimax_recursive returned a winning move that is not the
\* first move, and another legal move loses.
C2_Witness ==
    /\ pc = "recursive returned"
    /\ returned # get_possible_moves(old_state)[1]
    /\ GameValue(Successor(old_state, returned)) = -1
    /\ \E m \in FreeCells(old_state) : GameValue(Successor(old_state, m)) = 1

\* C3: when minimax_recursive or minimax_iterative returns,
\* game.current_state is the state it was when the call began.
C3_CurrentStateRestored ==
    pc \in {"recursive returned", "iterative returned"}
        => current_state = old_state

\* C3 witness: minimax_iterative has returned after its loop went through
\* the states of a tree of at least four nodes.
C3_Witness ==
    /\ pc = "iterative returned"
    /\ Len(tree) >= 4
    /\ current_state = old_state
    /\ current_state # tree[Len(tree)].value

--------------------------------------------------------------------------
(* Side length 1.                                                          *)

\* the game of side length 1 that player 1 opened with the move 'A'
AfterA ==
    /\ length = 1
    /\ Len(states) = 2
    /\ states[1].p1_turn
    /\ StateAt(heap, states[2]).cur_board.rows[0].cells[1] = "1"

\* C12 as claimed: after the move 'A' player 1 has score 2, the game is not
\* over and 'B' and 'C' are possible moves.
C12_MoveAScoresTwo ==
    AfterA =>
        /\ StateAt(heap, states[2]).p1_score = 2
        /\ ~is_over(StateAt(heap, states[2]))
        /\ {"B", "C"} \subseteq Range(get_possible_moves(StateAt(heap, states[2])))

\* C12 as amended: after the move 'A' player 1 has captured row 0, left
\* diagonal 0 and right diagonal 1, so has score 3 of 6 ley-lines, and the
\* game is over with no possible move.
C12_MoveAScoresThree ==
    AfterA =>
        LET s == StateAt(heap, states[2])
        IN /\ s.p1_score = 3
           /\ s.p2_score = 0
           /\ {l \in AllLines : LineOf(s, l).status = "1"}
              = {<<"rows", 0>>, <<"left", 0>>, <<"right", 1>>}
           /\ is_over(s)
           /\ get_possible_moves(s) = <<>>

\* C12 witness: the game of side length 1 after player 1's move 'A'.
C12_Witness == AfterA /\ StateAt(heap, states[1]).cur_board.rows[0].cells[1] = "A"

--------------------------------------------------------------------------
(* Properties of the board StonehengeGame.__init__ builds.                 *)

\* the places of the ley-lines of dictionary d that hold the label c
Places(d, c) ==
    UNION {{<<i, j>> : j \in {j \in 1..Len(d[i].cells) : d[i].cells[j] = c}} :
              i \in DOMAIN d}

\* C13: the board a game starts with has length + 1 rows, length + 1 left
\* diagonals and length + 1 right diagonals, all uncaptured, and every cell
\* label is in exactly one row, one left diagonal and one right diagonal.
C13_BoardShape ==
    LET b == StateAt(heap, states[1]).cur_board
        labels == UNION {Range(b.rows[i].cells) : i \in DOMAIN b.rows}
                  \cup UNION {Range(b.left[i].cells) : i \in DOMAIN b.left}
                  \cup UNION {Range(b.right[i].cells) : i \in DOMAIN b.right}
    IN /\ \A k \in {"rows", "left", "right"} :
             /\ Cardinality(DOMAIN b[k]) = length + 1
             /\ \A i \in DOMAIN b[k] : b[k][i].status = "n"
       /\ Cardinality(DOMAIN b.rows) + Cardinality(DOMAIN b.left)
          + Cardinality(DOMAIN b.right) = 3 * (length + 1)
       /\ labels \subseteq Range(letters)
       /\ \A c \in labels : \A k \in {"rows", "left", "right"} :
             Cardinality(Places(b[k], c)) = 1

\* C13 witness: a game on the board of side length 5, one move in.
C13_Witness == length = 5 /\ Len(states) = 2

--------------------------------------------------------------------------
(* Properties of make_move called with any label.                          *)

\* C11: make_move returns a state only for the label of an unclaimed cell:
\* every state a call returned is the successor of the state before it by
\* one of that state's possible moves.
C11_InvalidLabelReturnsNoState ==
    \A i \in 1..(Len(states) - 1) :
        \E m \in Range(get_possible_moves(StateAt(heap, states[i]))) :
            StateAt(heap, states[i + 1]) = Successor(StateAt(heap, states[i]), m)

--------------------------------------------------------------------------
(* Properties of the ley-lines and the turn along a game.                  *)

\* the player tagged x owns at least half of the cells of ley-line l in the
\* i-th state of the game
HasHalf(i, l, x) ==
    LET line == LineOf(StateAt(heap, states[i]), l)
    IN 2 * Owned(line, x) >= Len(line.cells)

\* the first state of the game in which a player owns half of ley-line l
FirstHalf(i, l) ==
    CHOOSE k \in 1..i :
        /\ \E x \in {"1", "2"} : HasHalf(k, l, x)
        /\ \A j \in 1..(k - 1) : \A x \in {"1", "2"} : ~HasHalf(j, l, x)

\* C14: in every state of the game a ley-line is uncaptured exactly when
\* neither player owns at least half of its cells, a ley-line captured by x
\* has x owning at least half of its cells, and when both players own at
\* least half the status names the one who owned half first.
C14_StatusMatchesOwnership ==
    \A i \in 1..Len(states) : \A l \in AllLines :
        LET status == LineOf(StateAt(heap, states[i]), l).status
        IN /\ status = "n" <=> (~HasHalf(i, l, "1") /\ ~HasHalf(i, l, "2"))
           /\ \A x \in {"1", "2"} : status = x => HasHalf(i, l, x)
           /\ (HasHalf(i, l, "1") /\ HasHalf(i, l, "2"))
              => /\ HasHalf(FirstHalf(i, l), l, status)
                 /\ \E x \in {"1", "2"} : ~HasHalf(FirstHalf(i, l), l, x)

\* C14 witness: both players own half of a ley-line that player 2 captured,
\* beside a ley-line with claimed cells and no owner of half.
C14_Witness ==
    /\ \E l \in AllLines :
          /\ HasHalf(Len(states), l, "1")
          /\ HasHalf(Len(states), l, "2")
          /\ LineOf(StateAt(heap, Last), l).status = "2"
    /\ \E l \in AllLines :
          /\ LineOf(StateAt(heap, Last), l).status = "n"
          /\ Owned(LineOf(StateAt(heap, Last), l), "1")
             + Owned(LineOf(StateAt(heap, Last), l), "2") >= 1

\* C16: each state of the game has the other player to move than the state
\* before it, the score of the player who did not move is the same in both,
\* and the score of the player who moved is not lower.
C16_TurnFlipsScoresGrow ==
    \A i \in 1..(Len(states) - 1) :
        LET s == StateAt(heap, states[i])
            t == StateAt(heap, states[i + 1])
            other == IF s.p1_turn THEN "2" ELSE "1"
        IN /\ t.p1_turn = ~s.p1_turn
           /\ ScoreOf(t, other) = ScoreOf(s, other)
           /\ ScoreOf(t, Mover(s)) >= ScoreOf(s, Mover(s))

\* C16 witness: four moves in, a move that scored follows one that did not.
C16_Witness ==
    /\ Len(states) >= 5
    /\ \E i \in 2..(Len(states) - 1) :
          LET r == StateAt(heap, states[i - 1])
              s == StateAt(heap, states[i])
              t == StateAt(heap, states[i + 1])
          IN /\ ScoreOf(s, Mover(r)) = ScoreOf(r, Mover(r))
             /\ ScoreOf(t, Mover(s)) > ScoreOf(s, Mover(s))
--------------------------------------------------------------------------
(* Properties of rough_outcome.                                            *)

\* a score of s is at least 3 * (s.length + 1) / 2
Winning(s) == Reached(s.p1_score) \/ Reached(s.p2_score)

\* the states one legal move away from s
After(s) == {Successor(s, m) : m \in FreeCells(s)}

\* C15: rough_outcome returns -1, 0 or 1: -1 for a state with no legal move;
\* otherwise 1 if a legal move makes a state with a winning score; otherwise
\* -1 if after every legal move some reply of the opponent makes a state with
\* a winning score; otherwise 0.
C15_RoughOutcome ==
    outcome # <<>> =>
        LET s == current_state
            legal == IF Winning(s) THEN {} ELSE After(s)
        IN /\ outcome[1] \in {-1, 0, 1}
           /\ outcome[1] =
                 (IF legal = {} THEN -1
                  ELSE IF \E t \in legal : Winning(t) THEN 1
                  ELSE IF \A t \in legal : \E u \in After(t) : Winning(u) THEN -1
                  ELSE 0)

\* C15 witness: rough_outcome returned 0 for a state from which one move
\* lets the opponent win at once and another does not.
C15_Witness ==
    /\ outcome = <<0>>
    /\ \E t \in After(current_state) : \E u \in After(t) : Winning(u)
    /\ \E t \in After(current_state) : \A u \in After(t) : ~Winning(u)
--------------------------------------------------------------------------
(* Properties of the loop of minimax_iterative.                            *)

\* the state of the tree numbered i is over
Terminal(i) == is_over(tree[i].value)

\* the loop has ended: "while not process.is_empty()" found the stack empty
LoopEnded == pc = "iterative" /\ process = <<>>

\* the steps WF_pops(Remove) asks for are the turns of the loop, no other
RemoveIsATurn ==
    [][(Remove /\ pops' # pops)
          <=> (IterativeOver \/ IterativeExpand \/ IterativeScore)]_vars

\* C17: the loop of minimax_iterative ends with an empty stack; by then each
\* tree whose state is over was removed once and each other tree twice, and
\* at no time was a tree removed more often than that.
C17_LoopTerminates ==
    /\ (pc = "iterative") ~>
          (/\ LoopEnded
           /\ \A i \in 1..Len(tree) : pops[i] = (IF Terminal(i) THEN 1 ELSE 2))
    /\ [](\A i \in 1..Len(pops) : pops[i] <= (IF Terminal(i) THEN 1 ELSE 2))
    /\ [](LoopEnded =>
             \A i \in 1..Len(tree) : pops[i] = (IF Terminal(i) THEN 1 ELSE 2))

\* C17 witness: the loop has ended on a tree of three levels with trees
\* whose state is over on the second and the third.
C17_Witness ==
    /\ LoopEnded
    /\ \E k \in 1..Len(tree[1].children) :
          /\ Terminal(tree[1].children[k])
          /\ pops[tree[1].children[k]] = 1
    /\ \E k \in 1..Len(tree[1].children) :
          LET c == tree[1].children[k]
          IN /\ ~Terminal(c)
             /\ pops[c] = 2
             /\ \E j \in 1..Len(tree[c].children) : Terminal(tree[c].children[j])

\* C18: when a tree with children is removed from the stack each of its
\* children has a score, so no score of None is read, and a score a tree has
\* got is the score it keeps.
C18_ChildrenSettledFirst ==
    /\ [](/\ pc # "TypeError"
          /\ (pc = "iterative" /\ process # <<>> /\ tree[top].children # <<>>)
                => ~unset_child(tree, top)
          /\ LoopEnded => ~unset_child(tree, 1))
    /\ [][\A i \in 1..Len(tree) :
             tree[i].score # <<>>
                => /\ i <= Len(tree')
                   /\ tree'[i].score = tree[i].score]_vars

\* C18 witness: a tree with children is on top of the stack for the second
\* time, below it on the stack the root, and its children have scores that
\* differ.
C18_Witness ==
    /\ pc = "iterative"
    /\ Len(process) >= 2
    /\ tree[top].children # <<>>
    /\ pops[top] = 1
    /\ \E j, k \in 1..Len(tree[top].children) :
          tree[tree[top].children[j]].score # tree[tree[top].children[k]].score
--------------------------------------------------------------------------
(* Properties of the move minimax_iterative returns.                       *)

\* C19: minimax_iterative returns the first move, in the order of
\* get_possible_moves, whose child has the greatest negated score, and that
\* is the move minimax_recursive returns for the same state.
C19_FirstBestMove ==
    pc = "iterative returned" =>
        LET moves == get_possible_moves(old_state)
        IN /\ \E k \in 1..Len(moves) :
                 /\ returned = moves[k]
                 /\ \A j \in 1..Len(moves) : RootScores[j] <= RootScores[k]
                 /\ \A j \in 1..(k - 1) : RootScores[j] < RootScores[k]
           /\ returned = minimax_recursive(old_state)

\* C19 witness: minimax_iterative returned the second of three moves, and
\* the third has the same negated score.
C19_Witness ==
    /\ pc = "iterative returned"
    /\ Len(RootScores) = 3
    /\ returned = get_possible_moves(old_state)[2]
    /\ RootScores[2] = RootScores[3]
    /\ RootScores[1] < RootScores[2]
--------------------------------------------------------------------------
(* Properties of the value max_score computes.                             *)

\* the values max_score computes for the states one legal move after s
ValuesAfter(s) == {max_score(t).score : t \in After(s)}

\* the states whose value minimax_recursive has asked max_score for, and the
\* value it got: scores_possible_moves holds that value times -1
Asked ==
    {<<Successor(old_state, get_possible_moves(old_state)[k]),
       -1 * scores_possible_moves[k]>> : k \in 1..Len(scores_possible_moves)}

\* C20 as the claim words it: the value max_score computes for a state that
\* is not over is -1 times the greatest value it computes for the states
\* after the legal moves.
C20_MinusMaxOfValues ==
    pc = "recursive" =>
        /\ \A a \in Asked :
              ~is_over(a[1]) => a[2] = -1 * Max(ValuesAfter(a[1]))
        /\ max_score(old_state).score = -1 * Max(ValuesAfter(old_state))

\* C20 amended: the value max_score computes for a state that is not over
\* is the greatest of the values it computes for the states after the legal
\* moves, each multiplied by -1.
C20_MaxOfMinusValues ==
    pc = "recursive" =>
        /\ \A a \in Asked :
              ~is_over(a[1]) => a[2] = Max({-1 * v : v \in ValuesAfter(a[1])})
        /\ max_score(old_state).score
              = Max({-1 * v : v \in ValuesAfter(old_state)})

\* C20 witness: max_score was asked for the value of a state that is not
\* over and has moves to states of value 1 and of value -1.
C20_Witness ==
    /\ pc = "recursive"
    /\ \E a \in Asked : ~is_over(a[1]) /\ ValuesAfter(a[1]) = {-1, 1}
--------------------------------------------------------------------------
(* Properties of the values at the end of a game.                          *)

\* C21: a state that is over has exactly one winner, the player who is not
\* to move, and both evaluators give it the value -1; every value either
\* evaluator has computed is -1 or 1, never 0.
C21_TerminalValueIsLoss ==
    /\ is_over(current_state) =>
          /\ is_winner(current_state, "p1") # is_winner(current_state, "p2")
          /\ max_score(current_state).score = -1
          /\ tree_over_score(current_state) = -1
    /\ \A i \in 1..Len(tree) :
          tree[i].score # <<>> =>
              /\ tree[i].score[1] \in {-1, 1}
              /\ Terminal(i) => tree[i].score[1] = -1
    /\ pc = "recursive" =>
          /\ \A a \in Asked : /\ a[2] \in {-1, 1}
                              /\ is_over(a[1]) => a[2] = -1
          /\ max_score(old_state).score \in {-1, 1}

\* C21 witness: minimax_iterative has scored a state that player 1 lost, a
\* state that player 2 lost and a state of value 1.
C21_Witness ==
    /\ \E i, j \in 1..Len(tree) :
          /\ Terminal(i) /\ tree[i].score = <<-1>> /\ tree[i].value.p1_turn
          /\ Terminal(j) /\ tree[j].score = <<-1>> /\ ~tree[j].value.p1_turn
    /\ \E i \in 1..Len(tree) : tree[i].score = <<1>>
--------------------------------------------------------------------------
(* rough_outcome against the value max_score computes.                     *)

\* C22: when rough_outcome returns 1 the value max_score computes for the
\* state is 1, and when it returns -1 that value is -1.
C22_DecisiveOutcomeIsExact ==
    outcome # <<>> =>
        /\ outcome[1] = 1 => max_score(current_state).score = 1
        /\ outcome[1] = -1 => max_score(current_state).score = -1

\* C22 witness: rough_outcome returned -1 for a state that is not over and
\* has moves left after each reply.
C22_Witness ==
    /\ outcome = <<-1>>
    /\ ~is_over(current_state)
    /\ Cardinality(FreeCells(current_state)) >= 3
    /\ max_score(current_state).score = -1
==========================================================================
